---- MODULE Spec2Model ----
(***************************************************************************)
(* Model of bberg/sftp.py: the request builder (Sftp.build_request), the   *)
(* polling engine (Sftp.request with send_request and get_response) and    *)
(* the reply parser (parse_hist_security_response).                        *)
(*                                                                         *)
(* The specifications share the variables; each runs one component and     *)
(* leaves the variables of the other two at their idle values:             *)
(*   Spec       Sftp.request, one call, with the vendor depositing replies *)
(*   LiveSpec   the same, with the fairness of a sequential program        *)
(*   ParseSpec  parse_hist_security_response, one call, line by line       *)
(*   BuildSpec  one Sftp session and its build_request calls               *)
(***************************************************************************)
EXTENDS Integers, Sequences, FiniteSets, TLC

VARIABLES
    \* Sftp.request
    requests,    \* the argument: insertion-ordered mapping, a sequence of <<rid, text>>
    responses,   \* rid -> decoded reply text
    pending,     \* list of rids
    kept,        \* the list under construction by the comprehension of line 143
    i,           \* position of the running loop (for of line 137, comprehension of line 143)
    pc,          \* position of request()
    session,     \* the pysftp.Connection: "none", "open", "closed"
    files,       \* the remote directory: file name -> content, NoFile when there is none
    writes,      \* the names of the files written, in order
    replyname,   \* the local of get_response: the path of the last check of the pass
    result,      \* what request() returned: NoReturn before it returns and when it raises
    exc,         \* the exception request() raised, "" when none
    \* parse_hist_security_response
    begin_date, end_date, fields,
    ppc,         \* "parsing", "returned", "raised", "idle"
    in_sec, sec, col, dframes,
    line,        \* the line of the current iteration of the for loop of line 27
    nlines,      \* number of lines read so far
    perr,        \* the exception that ended the parse, "" when none
    \* Sftp (the builder session)
    username, tstr, request_id,
    built,       \* the rids build_request returned, in call order
    args,        \* <<headers, fields, data>> of the last call of build_request
    request_text \* the request text the last call of build_request returned

engineVars ==
    <<requests, responses, pending, kept, i, pc, session, files, writes, replyname,
      result, exc>>
parserVars == <<begin_date, end_date, fields, ppc, in_sec, sec, col, dframes, line, nlines, perr>>
builderVars == <<username, tstr, request_id, built, args, request_text>>
vars == <<engineVars, parserVars, builderVars>>

(***************************************************************************)
(* Bounds                                                                  *)
(***************************************************************************)
MaxBatch == 3      \* largest number of requests in one call of request()
MaxLines == 5      \* largest number of lines of a reply text
MaxBuilds == 3     \* largest number of build_request calls in one session

(***************************************************************************)
(* Values                                                                  *)
(***************************************************************************)
Absent == "<absent>"
Unbound == "<unbound>"

\* The identifiers a caller may submit.
BatchRids == {"r" \o ToString(n) : n \in 1..MaxBatch}
RequestTexts == {"q"}
ReplyTexts == {"ta", "tb"}

\* A mapping with no key: {} in the source.
EmptyDict == [k \in {} |-> Absent]

\* d[k] = v of a dict.
DictSet(d, k, v) == [x \in (DOMAIN d) \cup {k} |-> IF x = k THEN v ELSE d[x]]

\* The set of the elements of a list.
Range(s) == {s[k] : k \in DOMAIN s}

\* All lists without repetition of at most n elements of S.
DistinctSeqs(S, n) ==
    {s \in UNION {[1..k -> S] : k \in 0..n} : Cardinality(Range(s)) = Len(s)}

\* The keys of the insertion-ordered mapping, in order.
Keys(reqs) == [k \in DOMAIN reqs |-> reqs[k][1]]

(***************************************************************************)
(* The transport (pysftp) and the codec (gzip, utf-8)                      *)
(***************************************************************************)
\* '{}.req'.format(rid)
ReqName(rid) == rid \o ".req"

\* The reply is looked for under the name given in the request header.
ReplyName_AsInHeader(rid) == rid \o ".dat"

\* '{}.dat.gz'.format(rid)
ReplyName(rid) == rid \o ".dat.gz"

\* The strings strftime('%Y%m%d%H%M%S') may give when the session is constructed.
ClockStrings == {"20200229235959", "20200301000000"}

\* The identifiers build_request can return in a session made at time t (line 93).
SessionRids(t) == {"bbpy_" \o t \o "_" \o ToString(n) : n \in 1..MaxBuilds}

\* The names of the request files and of the reply files of a set of rids.
NamesOf(rids) == {ReqName(r) : r \in rids} \cup {ReplyName(r) : r \in rids}

FileNames == NamesOf(BatchRids)

\* No file under a name.
NoFile == <<"none">>

\* What the vendor may deposit: the gzip of utf-8 text, or bytes that are not.
Gzip(text) == <<"gz", text>>
Corrupt == <<"bytes">>
ReplyContents == {Gzip(t) : t \in ReplyTexts} \cup {Corrupt}

\* sftp.exists(name)
Exists(name) == files[name] /= NoFile

\* decompress(bytes).decode("utf-8") succeeds
Decodable(content) == content[1] = "gz"

\* decompress(bytes).decode("utf-8")
Decode(content) == content[2]

(***************************************************************************)
(* Sftp.request (lines 126-146), send_request (12-21), get_response (59-73)*)
(***************************************************************************)
\* The arguments a caller may pass: a dict has every key once.
RequestBatches ==
    {[k \in DOMAIN rids |-> <<rids[k], text>>] :
        rids \in DistinctSeqs(BatchRids, MaxBatch), text \in RequestTexts}

\* What request() has handed to its caller: nothing yet, or the mapping.
NoReturn == <<>>
Returned(mapping) == <<mapping>>

\* request() is not running; the server holds no file under any of the names.
EngineIdleOver(names) ==
    /\ requests = <<>>
    /\ responses = EmptyDict
    /\ pending = <<>>
    /\ kept = <<>>
    /\ i = 0
    /\ pc = "idle"
    /\ session = "none"
    /\ files = [n \in names |-> NoFile]
    /\ writes = <<>>
    /\ replyname = ""
    /\ result = NoReturn
    /\ exc = ""

EngineIdle == EngineIdleOver(FileNames)

\* request() is entered: line 133 has run, the connection is not yet made.
EngineInit ==
    /\ requests \in RequestBatches
    /\ responses = EmptyDict
    /\ pending = <<>>
    /\ kept = <<>>
    /\ i = 0
    /\ pc = "connect"
    /\ session = "none"
    /\ files = [n \in FileNames |-> NoFile]
    /\ writes = <<>>
    /\ replyname = ""
    /\ result = NoReturn
    /\ exc = ""

\* request() leaves the parser and the builder alone.
EngineFrame == UNCHANGED <<parserVars, builderVars>>

\* The failure is swallowed: request() returns what it has collected.
Raise_ReturnsPartial(kind) ==
    /\ pc' = "done"
    /\ exc' = kind
    /\ session' = IF session = "open" THEN "closed" ELSE session
    /\ pending' = <<>>
    /\ kept' = <<>>
    /\ i' = 0
    /\ replyname' = ""
    /\ result' = Returned(responses)
    /\ UNCHANGED <<requests, responses, files, writes>>

\* An exception leaves the connection as it was.
Raise_LeavesOpen(kind) ==
    /\ pc' = "raised"
    /\ exc' = kind
    /\ pending' = <<>>
    /\ kept' = <<>>
    /\ i' = 0
    /\ replyname' = ""
    /\ UNCHANGED <<requests, responses, session, files, writes, result>>

\* The with statement of line 134 is left by an exception: the connection is
\* closed, request() raises and its locals are gone.  The mapping filled so
\* far stays in responses, which no caller can reach: nothing is returned.
Raise(kind) ==
    /\ pc' = "raised"
    /\ exc' = kind
    /\ session' = IF session = "open" THEN "closed" ELSE session
    /\ pending' = <<>>
    /\ kept' = <<>>
    /\ i' = 0
    /\ replyname' = ""
    /\ UNCHANGED <<requests, responses, files, writes, result>>

\* Line 134: the connection is made; line 136.
Connect ==
    /\ EngineFrame
    /\ pc = "connect"
    /\ session' = "open"
    /\ pending' = <<>>
    /\ i' = 1
    /\ pc' = IF Len(requests) > 0 THEN "send" ELSE "while"
    /\ UNCHANGED <<requests, responses, kept, files, writes, replyname, result, exc>>

\* Line 134: the connection cannot be made.
ConnectFails ==
    /\ EngineFrame
    /\ pc = "connect"
    /\ Raise("IOError")

\* The first request is written and polling starts.
SendRequest_OneThenPoll ==
    /\ EngineFrame
    /\ pc = "send"
    /\ files' = [files EXCEPT ![ReqName(requests[i][1])] = <<"text", requests[i][2]>>]
    /\ writes' = Append(writes, ReqName(requests[i][1]))
    /\ pending' = Append(pending, requests[i][1])
    /\ i' = i + 1
    /\ pc' = "while"
    /\ UNCHANGED <<requests, responses, kept, session, replyname, result, exc>>

\* Lines 137-139, one iteration: send_request writes <rid>.req, the rid is
\* recorded as pending.
SendRequest ==
    /\ EngineFrame
    /\ pc = "send"
    /\ LET rid == requests[i][1]
           request == requests[i][2]
       IN  /\ files' = [files EXCEPT ![ReqName(rid)] = <<"text", request>>]
           /\ writes' = Append(writes, ReqName(rid))
           /\ pending' = Append(pending, rid)
    /\ i' = i + 1
    /\ pc' = IF i < Len(requests) THEN "send" ELSE "while"
    /\ UNCHANGED <<requests, responses, kept, session, replyname, result, exc>>

\* Lines 19-20: the write fails.
SendRequestFails ==
    /\ EngineFrame
    /\ pc = "send"
    /\ Raise("IOError")

\* The loop never ends.
LoopCondition_Forever(pend) == TRUE

\* Line 141.
LoopCondition(pend) == Len(pend) > 0

\* Line 141: the test of the while loop; when it fails, the with statement is
\* left and line 146 returns the mapping.
WhileTest ==
    /\ EngineFrame
    /\ pc = "while"
    /\ IF LoopCondition(pending)
       THEN /\ pc' = "sleep"
            /\ UNCHANGED <<session, result>>
       ELSE /\ pc' = "done"
            /\ session' = "closed"
            /\ result' = Returned(responses)
    /\ UNCHANGED <<requests, responses, pending, kept, i, files, writes, replyname, exc>>

\* Line 142: sleep(30); the comprehension of line 143 starts.
Sleep ==
    /\ EngineFrame
    /\ pc = "sleep"
    /\ pc' = "poll"
    /\ i' = 1
    /\ kept' = <<>>
    /\ UNCHANGED <<requests, responses, pending, session, files, writes, replyname,
                   result, exc>>

\* The text is stored under the name of the reply file.
StoreResponse_UnderFileName(resp, rid, text) == DictSet(resp, ReplyName(rid), text)

\* The mapping is started afresh with the text just read.
StoreResponse_Afresh(resp, rid, text) == DictSet(EmptyDict, rid, text)

\* Line 70: responses[rid] = text.
StoreResponse(resp, rid, text) == DictSet(resp, rid, text)

\* The filter keeps a rid whose reply was read.
Filter_KeepsAll(keep, rid, got) == Append(keep, rid)

\* The filter drops a rid whose reply is not there.
Filter_DropsAll(keep, rid, got) == keep

\* Line 143: the filter of the comprehension.
Filter(keep, rid, got) == IF got THEN keep ELSE Append(keep, rid)

\* Line 144: the condition asserted after a pass.
Conserved(pend, resp, reqs) == Len(pend) + Cardinality(DOMAIN resp) = Len(reqs)

\* Lines 67-71, for one element of the comprehension: the reply file of the
\* rid exists and is read.
GetResponseFound ==
    /\ EngineFrame
    /\ pc = "poll"
    /\ i <= Len(pending)
    /\ LET rid == pending[i]
           name == ReplyName(rid)
       IN  /\ replyname' = name
           /\ Exists(name)
           /\ Decodable(files[name])
           /\ responses' = StoreResponse(responses, rid, Decode(files[name]))
           /\ kept' = Filter(kept, rid, TRUE)
    /\ i' = i + 1
    /\ UNCHANGED <<requests, pending, pc, session, files, writes, result, exc>>

\* Lines 68, 73, for one element of the comprehension: the reply file of the
\* rid is not there.
GetResponseNotReady ==
    /\ EngineFrame
    /\ pc = "poll"
    /\ i <= Len(pending)
    /\ LET rid == pending[i]
           name == ReplyName(rid)
       IN  /\ replyname' = name
           /\ ~Exists(name)
           /\ kept' = Filter(kept, rid, FALSE)
    /\ i' = i + 1
    /\ UNCHANGED <<requests, responses, pending, pc, session, files, writes, result, exc>>

\* Line 70: the reply file is there and is not the gzip of utf-8 text.
GetResponseUndecodable ==
    /\ EngineFrame
    /\ pc = "poll"
    /\ i <= Len(pending)
    /\ Exists(ReplyName(pending[i]))
    /\ ~Decodable(files[ReplyName(pending[i])])
    /\ Raise("BadGzipFile")

\* Lines 143-144: the comprehension is over, pending is rebound to its list;
\* the assertion.
EndOfPass ==
    /\ EngineFrame
    /\ pc = "poll"
    /\ i > Len(pending)
    /\ IF Conserved(kept, responses, requests)
       THEN /\ pending' = kept
            /\ kept' = <<>>
            /\ i' = 0
            /\ replyname' = ""
            /\ pc' = "while"
            /\ UNCHANGED <<requests, responses, session, files, writes, result, exc>>
       ELSE Raise("AssertionError")

\* Lines 68-70: exists, open or read fails (the connection dropped).
GetResponseFails ==
    /\ EngineFrame
    /\ pc = "poll"
    /\ i <= Len(pending)
    /\ Raise("IOError")

\* The identifiers the vendor may answer: those this session built and those
\* of the batch vocabulary, as far as the server has a place for their files.
VendorRids == {r \in BatchRids \cup Range(built) : ReplyName(r) \in DOMAIN files}

\* The vendor deposits a reply file; a deposited file stays.
Deposit ==
    /\ EngineFrame
    /\ pc \in {"connect", "send", "while", "sleep", "poll"}
    /\ \E rid \in VendorRids, content \in ReplyContents :
          /\ ~Exists(ReplyName(rid))
          /\ files' = [files EXCEPT ![ReplyName(rid)] = content]
    /\ UNCHANGED <<requests, responses, pending, kept, i, pc, session, writes, replyname,
                   result, exc>>

(***************************************************************************)
(* Dates: datetime.strptime(token, '%d/%m/%Y') and pd.date_range           *)
(***************************************************************************)
IsLeap(y) == (y % 4 = 0 /\ y % 100 /= 0) \/ y % 400 = 0

DaysInMonth(m, y) ==
    IF m = 2 THEN (IF IsLeap(y) THEN 29 ELSE 28)
    ELSE IF m \in {4, 6, 9, 11} THEN 30 ELSE 31

RECURSIVE DaysBeforeMonth(_, _)
DaysBeforeMonth(m, y) ==
    IF m <= 1 THEN 0 ELSE DaysBeforeMonth(m - 1, y) + DaysInMonth(m - 1, y)

\* A date as the number of its day, 01/01/2020 being day 1 (dates of 2020).
Ordinal(d, m, y) == DaysBeforeMonth(m, y) + d

\* The digits of a date token read by the format %d/%m/%Y: <<day, month,
\* year>>, or <<>> when the token does not have that form (strptime accepts
\* no text after the year, not even a newline).
DateDigits(tok) ==
    CASE tok = "28/02/2020" -> <<28, 2, 2020>>
      [] tok = "29/02/2020" -> <<29, 2, 2020>>
      [] tok = "01/03/2020" -> <<1, 3, 2020>>
      [] tok = "02/03/2020" -> <<2, 3, 2020>>
      [] tok = "30/02/2020" -> <<30, 2, 2020>>
      [] OTHER -> <<>>

\* strptime(tok, '%d/%m/%Y'): <<ordinal>>, or <<>> for ValueError (a token
\* that is not of the form, or names no day of the calendar).
Strptime(tok) ==
    LET dmy == DateDigits(tok)
    IN  IF dmy = <<>> THEN <<>>
        ELSE IF dmy[2] \in 1..12 /\ dmy[1] \in 1..DaysInMonth(dmy[2], dmy[3])
             THEN <<Ordinal(dmy[1], dmy[2], dmy[3])>>
             ELSE <<>>

\* pd.date_range(begin, end): every day from begin to end, both included.
DateRange(b, e) == [k \in 1..(IF e >= b THEN e - b + 1 ELSE 0) |-> b + k - 1]

(***************************************************************************)
(* Numbers: float(token) and int(token)                                    *)
(***************************************************************************)
\* A float is <<"num", hundredths>> or <<"nan">>; <<"ValueError">> when
\* float() raises.  float() ignores surrounding whitespace.
FloatOf(tok) ==
    CASE tok \in {"123.45", "123.45\n"} -> <<"num", 12345>>
      [] tok \in {"7", "7\n"} -> <<"num", 700>>
      [] tok \in {"0", "0.0", "0\n"} -> <<"num", 0>>
      [] tok \in {"nan", "nan\n"} -> <<"nan">>
      [] OTHER -> <<"ValueError">>

\* int(token): <<n>>, or <<>> when int() raises ValueError.
IntOf(tok) ==
    CASE tok \in {"0", "0\n"} -> <<0>>
      [] tok \in {"12", "12\n"} -> <<12>>
      [] tok \in {"7", "7\n"} -> <<7>>
      [] OTHER -> <<>>

\* The test is "val is not None".
Truthy_NotNone(val) == val /= <<"None">>

\* Line 43: the truth value of val (None, 0.0 and -0.0 are false, nan is true).
Truthy(val) == val = <<"nan">> \/ (val[1] = "num" /\ val[2] /= 0)

(***************************************************************************)
(* Tables: the part of pandas.DataFrame the parser uses                    *)
(***************************************************************************)
\* A cell is <<>> (absent: NaN) or <<hundredths>>.
NaN == <<>>

CellOf(val) == IF val[1] = "num" THEN <<val[2]>> ELSE NaN

\* Line 53: pd.DataFrame(index=pd.date_range(begin, end), columns=fields).
NewFrame(b, e, flds) ==
    [index |-> DateRange(b, e),
     columns |-> flds,
     cells |-> [rc \in Range(DateRange(b, e)) \X Range(flds) |-> NaN]]

\* Line 44: dframe.loc[ts, c] = val.  A label that is not in the index (in
\* the columns) enlarges the frame by a row (a column) of NaN.
LocSet(df, ts, c, val) ==
    LET index == IF ts \in Range(df.index) THEN df.index ELSE Append(df.index, ts)
        columns == IF c \in Range(df.columns) THEN df.columns ELSE Append(df.columns, c)
    IN  [index |-> index,
         columns |-> columns,
         cells |-> [rc \in Range(index) \X Range(columns) |->
                      IF rc = <<ts, c>> THEN CellOf(val)
                      ELSE IF rc \in DOMAIN df.cells THEN df.cells[rc] ELSE NaN]]

(***************************************************************************)
(* parse_hist_security_response (lines 24-56)                              *)
(***************************************************************************)
\* A line is the list of its pieces, the texts between its '|' characters;
\* the newline that ends the line is part of the last piece.
Securities == {"IBM", "MSFT"}
ColumnNames == {"PX_LAST", "PX_OPEN"}
ValidDateTokens == {"28/02/2020", "29/02/2020", "02/03/2020"}
BadDateTokens == {"30/02/2020", "2020-02-29"}
ValueTokens == {"123.45", "0", "abc", "nan"}

StartLines ==
    {<<"START SECURITY", s, c, "\n">> : s \in Securities, c \in ColumnNames}
      \cup {<<"START SECURITY", "IBM\n">>, <<"START SECURITY\n">>}

EndLines ==
    {<<"END SECURITY", "IBM", "PX_LAST", rc>> : rc \in {"0\n", "12\n", "x\n"}}
      \cup {<<"END SECURITY", "IBM\n">>, <<"END SECURITY\n">>}

DataLines ==
    {<<"IBM", d, v, "\n">> : d \in ValidDateTokens, v \in ValueTokens}
      \cup {<<"IBM", d, v, "\n">> : d \in BadDateTokens, v \in {"123.45", "abc"}}
      \cup {<<"MSFT", "29/02/2020", v, "\n">> : v \in {"123.45", "abc"}}
      \cup {<<"MSFT", "02/03/2020", "123.45", "\n">>}
      \cup {<<"IBM", "29/02/2020", "", "\n">>,
            <<"IBM", "29/02/2020", "7\n">>, <<"IBM", "29/02/2020\n">>, <<"\n">>,
            <<"IBM", "28/02/2020", "7", "a", "b", "\n">>}

Lines == StartLines \cup EndLines \cup DataLines

\* '|'.join(pieces)
RECURSIVE Join(_)
Join(pieces) ==
    IF Len(pieces) = 1 THEN pieces[1]
    ELSE pieces[1] \o "|" \o Join(Tail(pieces))

\* Line 28: line.split('|', maxsplit).
Split(pieces, maxsplit) ==
    IF Len(pieces) <= maxsplit + 1 THEN pieces
    ELSE Append(SubSeq(pieces, 1, maxsplit),
                Join(SubSeq(pieces, maxsplit + 1, Len(pieces))))

\* Nothing is asserted.
EntityMatches_Any(token, s) == TRUE

\* Line 37: the condition asserted of a data line.
EntityMatches(token, s) == token = s

\* The try statement handles nothing.
Handled_None(e) == FALSE

\* Line 40: the exceptions of float() the try statement handles.
Handled(e) == e = "ValueError"

\* A failed block is not left.
AfterEnd_OnlyOnSuccess(rc) == rc /= 0

\* Line 31: the value of in_sec after an END SECURITY line of return code rc.
AfterEnd(rc) == FALSE

\* The locals of the function.
Locals == [in_sec |-> in_sec, sec |-> sec, col |-> col, dframes |-> dframes, exc |-> ""]

Raised(st, e) == [st EXCEPT !.exc = e]

\* Lines 30-35: an END SECURITY line inside a block.
EndSecurity(st, bits) ==
    IF Len(bits) < 4 THEN Raised([st EXCEPT !.in_sec = FALSE], "IndexError")
    ELSE IF IntOf(bits[4]) = <<>> THEN Raised([st EXCEPT !.in_sec = FALSE], "ValueError")
    ELSE [st EXCEPT !.in_sec = AfterEnd(IntOf(bits[4])[1])]

\* Lines 37-44: any other line inside a block.
DataLine(st, bits) ==
    IF ~EntityMatches(bits[1], st.sec) THEN Raised(st, "AssertionError")
    ELSE IF Len(bits) < 3 THEN Raised(st, "IndexError")
    ELSE LET parsed == FloatOf(bits[3])
             failed == parsed = <<"ValueError">>
             val == IF failed THEN <<"None">> ELSE parsed
         IN  IF failed /\ ~Handled("ValueError") THEN Raised(st, "ValueError")
             ELSE IF ~Truthy(val) THEN st
             ELSE IF Strptime(bits[2]) = <<>> THEN Raised(st, "ValueError")
             ELSE [st EXCEPT !.dframes[st.sec] =
                       LocSet(@, Strptime(bits[2])[1], st.col, val)]

\* Every block starts with an empty table.
StartSecurity_Fresh(st, bits) ==
    IF Len(bits) < 3 THEN Raised([st EXCEPT !.in_sec = TRUE], "IndexError")
    ELSE [st EXCEPT !.in_sec = TRUE,
                    !.sec = bits[2],
                    !.col = bits[3],
                    !.dframes = DictSet(@, bits[2], NewFrame(begin_date, end_date, fields))]

\* Lines 46-54: a START SECURITY line outside a block.
StartSecurity(st, bits) ==
    IF Len(bits) < 3 THEN Raised([st EXCEPT !.in_sec = TRUE], "IndexError")
    ELSE [st EXCEPT !.in_sec = TRUE,
                    !.sec = bits[2],
                    !.col = bits[3],
                    !.dframes = IF bits[2] \in DOMAIN st.dframes THEN @
                                ELSE DictSet(@, bits[2],
                                             NewFrame(begin_date, end_date, fields))]

\* A START SECURITY line opens a block wherever it is read.
LoopBody_StartAnywhere(st, pieces) ==
    LET bits == Split(pieces, 4)
    IN  IF bits[1] = "START SECURITY" THEN StartSecurity(st, bits)
        ELSE IF st.in_sec
        THEN IF bits[1] = "END SECURITY" THEN EndSecurity(st, bits)
             ELSE DataLine(st, bits)
        ELSE st

\* Lines 28-54: the body of the for loop, for one line.
LoopBody(st, pieces) ==
    LET bits == Split(pieces, 4)
    IN  IF st.in_sec
        THEN IF bits[1] = "END SECURITY" THEN EndSecurity(st, bits)
             ELSE DataLine(st, bits)
        ELSE IF bits[1] = "START SECURITY" THEN StartSecurity(st, bits)
        ELSE st

\* The arguments of a call.
Day1 == Ordinal(28, 2, 2020)

ParserIdle ==
    /\ begin_date = 0 /\ end_date = 0 /\ fields = <<>>
    /\ ppc = "idle"
    /\ in_sec = FALSE /\ sec = Unbound /\ col = Unbound
    /\ dframes = EmptyDict
    /\ line = <<>> /\ nlines = 0 /\ perr = ""

\* Lines 25-26 have run.
ParserInit ==
    /\ begin_date \in {Day1, Day1 + 1}
    /\ end_date \in {Day1 + 1, Day1 + 2}
    /\ fields \in {<<"PX_LAST">>, <<"PX_LAST", "PX_OPEN">>}
    /\ ppc = "parsing"
    /\ in_sec = FALSE /\ sec = Unbound /\ col = Unbound
    /\ dframes = EmptyDict
    /\ line = <<>> /\ nlines = 0 /\ perr = ""

\* Lines 27-54: the next line of the text is read and handled.  An exception
\* leaves the function: no mapping is returned and the locals are gone.
ParseLine ==
    /\ UNCHANGED <<engineVars, builderVars>>
    /\ ppc = "parsing"
    /\ nlines < MaxLines
    /\ \E pieces \in Lines :
          LET st == LoopBody(Locals, pieces)
          IN  /\ line' = pieces
              /\ nlines' = nlines + 1
              /\ IF st.exc = ""
                 THEN /\ in_sec' = st.in_sec
                      /\ sec' = st.sec
                      /\ col' = st.col
                      /\ dframes' = st.dframes
                      /\ UNCHANGED <<ppc, perr>>
                 ELSE /\ ppc' = "raised"
                      /\ perr' = st.exc
                      /\ in_sec' = FALSE /\ sec' = Unbound /\ col' = Unbound
                      /\ dframes' = EmptyDict
    /\ UNCHANGED <<begin_date, end_date, fields>>

\* Line 56: the text has no further line; the mapping is returned and the
\* other locals are gone.
ParseReturn ==
    /\ UNCHANGED <<engineVars, builderVars>>
    /\ ppc = "parsing"
    /\ ppc' = "returned"
    /\ in_sec' = FALSE /\ sec' = Unbound /\ col' = Unbound
    /\ line' = <<>> /\ nlines' = 0
    /\ UNCHANGED <<begin_date, end_date, fields, dframes, perr>>

(***************************************************************************)
(* Sftp.__init__ and Sftp.build_request (lines 76-124)                     *)
(***************************************************************************)
opening_stanza == "START-OF-FILE\n"
closing_stanza == "\nEND-OF-FILE\n"
start_of_fields == "\nSTART-OF-FIELDS\n"
end_of_fields == "\nEND-OF-FIELDS\n"
start_of_data == "START-OF-DATA\n"
end_of_data == "\nEND-OF-DATA\n"

\* sep.join(strings)
RECURSIVE JoinWith(_, _)
JoinWith(sep, strings) ==
    IF Len(strings) = 0 THEN ""
    ELSE IF Len(strings) = 1 THEN strings[1]
    ELSE strings[1] \o sep \o JoinWith(sep, Tail(strings))

\* The counter is not incremented.
NextRequestId_Stuck(n) == n

\* Line 92.
NextRequestId(n) == n + 1

\* Line 93: 'bbpy_{}_{}'.format(tstr, request_id).
RidOf(t, n) == "bbpy_" \o t \o "_" \o ToString(n)

\* Lines 94-101: the header text for the rid and the caller's headers, a list
\* of <<key, value>> in the order of the dict.
build_header(rid, headers) ==
    "\n            FIRMNAME=" \o username
      \o "\n            REPLYFILENAME=" \o rid \o ".dat"
      \o "\n            COMPRESS=yes"
      \o "\n            PROGRAMFLAG=oneshot"
      \o "\n        "
      \o JoinWith("\n", [k \in DOMAIN headers |-> headers[k][1] \o "=" \o headers[k][2]])

\* Lines 103-104.
build_fields(flds) == start_of_fields \o JoinWith("\n", flds) \o end_of_fields

\* Lines 106-107.
build_data(data) == start_of_data \o JoinWith("\n", data) \o end_of_data

\* The data block is put before the fields block.
RequestText_DataFirst(rid, headers, flds, data) ==
    opening_stanza \o build_header(rid, headers) \o "\n" \o build_data(data)
      \o build_fields(flds) \o closing_stanza

\* Lines 120-124: the request text.
RequestText(rid, headers, flds, data) ==
    opening_stanza \o build_header(rid, headers) \o build_fields(flds)
      \o build_data(data) \o closing_stanza

\* The arguments a caller may pass.
HeaderArgs ==
    {<<>>, <<<<"PROGRAMNAME", "gethistory">>>>,
     <<<<"PROGRAMNAME", "gethistory">>, <<"DATERANGE", "20200228|20200301">>>>}
FieldArgs == {<<>>, <<"PX_LAST">>, <<"PX_LAST", "PX_OPEN">>}
DataArgs == {<<>>, <<"IBM Equity">>, <<"IBM Equity", "MSFT Equity">>}

BuilderIdle ==
    /\ username = "" /\ tstr = "" /\ request_id = 0
    /\ built = <<>> /\ args = <<>> /\ request_text = ""

\* Lines 84-89: the session is constructed; strftime('%Y%m%d%H%M%S') of the clock.
BuilderInit ==
    /\ username \in {"firm"}
    /\ tstr \in ClockStrings
    /\ request_id = 0
    /\ built = <<>>
    /\ args = <<>>
    /\ request_text = ""

\* Lines 109-124: what one call of build_request does to the session object
\* and what it returns (the rid is appended to built, the text is request_text).
Build(headers, flds, data) ==
    LET rid == RidOf(tstr, NextRequestId(request_id))
    IN  /\ request_id' = NextRequestId(request_id)
        /\ built' = Append(built, rid)
        /\ args' = <<headers, flds, data>>
        /\ request_text' = RequestText(rid, headers, flds, data)
        /\ UNCHANGED <<username, tstr>>

\* Lines 109-124: one call of build_request.
BuildRequest ==
    /\ UNCHANGED <<engineVars, parserVars>>
    /\ request_id < MaxBuilds
    /\ \E headers \in HeaderArgs, flds \in FieldArgs, data \in DataArgs :
          Build(headers, flds, data)

\* The caller prepares the argument of request(): it calls build_request and
\* either files the returned text under the returned rid or drops it.
BuildForBatch ==
    /\ UNCHANGED parserVars
    /\ pc = "idle"
    /\ request_id < MaxBuilds
    /\ Build(<<<<"PROGRAMNAME", "gethistory">>>>, <<"PX_LAST">>, <<"IBM Equity">>)
    /\ \E submit \in BOOLEAN :
          requests' = IF submit /\ Len(requests) < MaxBatch
                      THEN Append(requests, <<built'[Len(built')], request_text'>>)
                      ELSE requests
    /\ UNCHANGED <<responses, pending, kept, i, pc, session, files, writes, replyname,
                   result, exc>>

\* Line 133: request() is called with the mapping the caller prepared.
CallRequest ==
    /\ EngineFrame
    /\ pc = "idle"
    /\ pc' = "connect"
    /\ UNCHANGED <<requests, responses, pending, kept, i, session, files, writes,
                   replyname, result, exc>>

(***************************************************************************)
(* Specifications                                                          *)
(***************************************************************************)
Init == EngineInit /\ ParserIdle /\ BuilderIdle

Next ==
    \/ Connect
    \/ ConnectFails
    \/ SendRequest
    \/ SendRequestFails
    \/ WhileTest
    \/ Sleep
    \/ GetResponseFound
    \/ GetResponseNotReady
    \/ GetResponseUndecodable
    \/ GetResponseFails
    \/ EndOfPass
    \/ Deposit

Spec == Init /\ [][Next]_vars

\* request() is one sequential flow: when a step of it can be taken, one is.
Step ==
    \/ Connect \/ SendRequest \/ WhileTest \/ Sleep
    \/ GetResponseFound \/ GetResponseNotReady \/ GetResponseUndecodable \/ EndOfPass

LiveSpec == Init /\ [][Next]_vars /\ WF_vars(Step)

ParseInit == EngineIdle /\ ParserInit /\ BuilderIdle

ParseNext ==
    \/ ParseLine
    \/ ParseReturn

ParseSpec == ParseInit /\ [][ParseNext]_vars

BuildInit == EngineIdle /\ ParserIdle /\ BuilderInit

BuildNext == BuildRequest

BuildSpec == BuildInit /\ [][BuildNext]_vars

\* A session: requests are built, then request() is called with them.
SessionInit == BuilderInit /\ ParserIdle /\ EngineIdleOver(NamesOf(SessionRids(tstr)))

SessionNext ==
    \/ BuildForBatch
    \/ CallRequest
    \/ Connect
    \/ ConnectFails
    \/ SendRequest
    \/ SendRequestFails
    \/ WhileTest
    \/ Sleep
    \/ GetResponseFound
    \/ GetResponseNotReady
    \/ GetResponseUndecodable
    \/ GetResponseFails
    \/ EndOfPass
    \/ Deposit

SessionSpec == SessionInit /\ [][SessionNext]_vars

(***************************************************************************)
(* Properties of Sftp.request                                              *)
(***************************************************************************)
Submitted == {requests[k][1] : k \in DOMAIN requests}
Completed == DOMAIN responses
StillPending == {pending[k] : k \in DOMAIN pending}

\* request() stands between two passes: after the submissions or after a pass.
BetweenPasses == pc \in {"while", "sleep"}

\* C1: after every poll cycle the completed and the pending identifiers
\* partition the submitted ones (their counts add up to the number submitted,
\* none is in both, none in neither), and the assertion of the cycle holds.
C1_Conservation ==
    /\ exc /= "AssertionError"
    /\ BetweenPasses =>
          /\ Cardinality(Completed) + Len(pending) = Len(requests)
          /\ Completed \cap StillPending = {}
          /\ Completed \cup StillPending = Submitted

\* A pass has completed some identifiers, not the first submitted, and left
\* others pending.
C1_Witness ==
    /\ pc = "while"
    /\ Len(requests) = 3
    /\ Cardinality(Completed) = 1
    /\ pending = <<requests[1][1], requests[3][1]>>

\* C2: when request() returns, the keys of the returned mapping are exactly
\* the submitted identifiers and the value under each is the text of its own
\* reply file <rid>.dat.gz.
C2_ReturnsAllReplies ==
    pc = "done" =>
        /\ Len(result) = 1
        /\ DOMAIN result[1] = Submitted
        /\ \A rid \in Submitted :
              /\ files[rid \o ".dat.gz"][1] = "gz"
              /\ result[1][rid] = files[rid \o ".dat.gz"][2]

\* request() has returned three replies that are not all the same text.
C2_Witness ==
    /\ pc = "done"
    /\ Len(requests) = 3
    /\ result[1][requests[1][1]] = "tb"
    /\ result[1][requests[2][1]] = "ta"
    /\ result[1][requests[3][1]] = "tb"

\* An element of the comprehension has just been handled for the rid at
\* position i, without a failure of the transport.
Checked == pc = "poll" /\ i <= Len(pending) /\ i' = i + 1 /\ exc' /= "IOError"

\* C3: request() returns only with no identifier pending, hence only when
\* every reply file is there; an absent reply file raises nothing, leaves the
\* completed mapping as it is and keeps the identifier in the list that
\* becomes pending; and while an identifier is pending the loop goes on to the
\* next wait, whatever the number of passes so far.
C3_AbsentKeepsPolling ==
    /\ [](pc = "done" =>
            /\ pending = <<>>
            /\ \A rid \in Submitted : files[rid \o ".dat.gz"] /= NoFile)
    /\ [][(Checked /\ files[pending[i] \o ".dat.gz"] = NoFile) =>
            /\ pc' = "poll"
            /\ exc' = ""
            /\ responses' = responses
            /\ kept' = Append(kept, pending[i])]_vars
    /\ [][(pc = "poll" /\ pc' = "while") => pending' = kept]_vars
    /\ [][(pc = "while" /\ pending /= <<>> /\ pc' /= pc) => pc' = "sleep"]_vars
    /\ [][(pc = "sleep" /\ pc' /= pc) => (pc' = "poll" /\ pending' = pending)]_vars

\* After a pass that completed an identifier, another is pending and its
\* reply file is still not there.
C3_Witness ==
    /\ pc = "sleep"
    /\ Completed /= {}
    /\ \E rid \in StillPending : files[rid \o ".dat.gz"] = NoFile

AllRepliesThere == \A rid \in Submitted : files[rid \o ".dat.gz"] /= NoFile
NoTransportFailure == exc \notin {"IOError", "BadGzipFile"}

\* C4: if every submitted identifier's reply file is eventually there (a
\* deposited file stays) and no transport operation ever fails, request()
\* eventually returns.
C4_EventuallyReturns ==
    (<>[]AllRepliesThere /\ []NoTransportFailure) => <>(pc = "done")

\* request() has returned a batch of three whose reply files all came.
C4_Witness ==
    /\ pc = "done"
    /\ Len(requests) = 3
    /\ AllRepliesThere
    /\ exc = ""

(***************************************************************************)
(* Properties of parse_hist_security_response                              *)
(***************************************************************************)
\* The step reads a line: line' is the line read.
ReadsLine == ppc = "parsing" /\ nlines' = nlines + 1

\* The step reads a line inside a block whose first token is neither END
\* SECURITY nor the entity of the block.
ReadsMismatch == ReadsLine /\ in_sec /\ line'[1] \notin {"END SECURITY", sec}

\* The rows of a table are the days from begin_date to end_date, each once.
DenseIndex(df) ==
    /\ Len(df.index) = end_date - begin_date + 1
    /\ {df.index[k] : k \in DOMAIN df.index} = begin_date..end_date

\* C5: every returned table has exactly one row per date of
\* [begin_date, end_date] and no other row.
C5_OneRowPerDate ==
    ppc = "returned" => \A s \in DOMAIN dframes : DenseIndex(dframes[s])

\* C6: inside a block, a data line whose first token is not the entity of the
\* block ends the parse with an AssertionError; after that no line is read and
\* nothing is returned.
C6_MismatchAborts ==
    /\ [][ReadsMismatch => (ppc' = "raised" /\ perr' = "AssertionError")]_vars
    /\ [][ppc = "raised" => (ppc' = "raised" /\ nlines' = nlines)]_vars
    /\ [](ppc = "raised" => dframes = EmptyDict)

\* A line of MSFT inside a block of another entity has ended the parse.
C6_Witness ==
    /\ ppc = "raised"
    /\ perr = "AssertionError"
    /\ line = <<"MSFT", "29/02/2020", "123.45", "\n">>

\* C7: inside a block a line ends the parse only by an entity-token mismatch;
\* after any other data line or END SECURITY line (a date token that is
\* malformed or names no day, too few tokens, a return code that is no
\* integer) the parse goes on.
C7_OnlyMismatchAborts ==
    [][(ReadsLine /\ in_sec /\ ~ReadsMismatch) => ppc' = "parsing"]_vars

\* The step reads, inside a block, a data line of the block's entity whose
\* value token is no number.
ReadsBadValue ==
    /\ ReadsLine /\ in_sec
    /\ line'[1] = sec
    /\ Len(line') >= 3
    /\ line'[3] \in {"abc", ""}

\* Some cell of some table has a value.
SomeValue ==
    \E s \in DOMAIN dframes : \E rc \in DOMAIN dframes[s].cells :
        dframes[s].cells[rc] /= NaN

\* C8: a data line whose value token is no number raises nothing, writes no
\* cell (every table is as before), and leaves the parser inside the same
\* block, where it reads the next line as it would have without that line.
C8_BadValueSkipped ==
    [][ReadsBadValue =>
        /\ ppc' = "parsing" /\ perr' = ""
        /\ dframes' = dframes
        /\ in_sec' /\ sec' = sec /\ col' = col]_vars

\* A line with a value that is no number was read after a value was written;
\* the parse goes on inside the block.
C8_Witness ==
    /\ ppc = "parsing" /\ in_sec
    /\ Len(line) >= 3 /\ line[1] = sec /\ line[3] = "abc"
    /\ SomeValue

\* The step reads an END SECURITY line inside a block with return code rc.
ReadsEnd(rc) ==
    /\ ReadsLine /\ in_sec
    /\ line' = <<"END SECURITY", "IBM", "PX_LAST", rc>>

\* C9: an END SECURITY line with a non-zero return code raises nothing, puts
\* the parser outside the block as return code 0 does, and leaves every table
\* as it is; the tables are what a return gives back.
C9_NonZeroReturnCode ==
    /\ [][(ReadsEnd("12\n") \/ ReadsEnd("0\n")) =>
            /\ ppc' = "parsing" /\ perr' = ""
            /\ ~in_sec' /\ sec' = sec /\ col' = col
            /\ dframes' = dframes]_vars
    /\ [][ppc' = "returned" => dframes' = dframes]_vars

\* A block with a value has been closed by return code 12; the parse goes on.
C9_Witness ==
    /\ ppc = "parsing" /\ ~in_sec
    /\ line = <<"END SECURITY", "IBM", "PX_LAST", "12\n">>
    /\ SomeValue

(***************************************************************************)
(* Properties of Sftp.build_request                                        *)
(***************************************************************************)
\* C10: the k-th call returns the identifier bbpy_<tstr>_<k>, tstr being the
\* timestamp of the session; the counter is the number of calls; the
\* identifiers returned are pairwise distinct.
C10_DistinctIdentifiers ==
    /\ request_id = Len(built)
    /\ \A k \in DOMAIN built : built[k] = "bbpy_" \o tstr \o "_" \o ToString(k)
    /\ \A j, k \in DOMAIN built : j /= k => built[j] /= built[k]

\* Three calls were made in one session.
C10_Witness ==
    /\ Len(built) = 3
    /\ built[1] = "bbpy_20200301000000_1"
    /\ built[3] = "bbpy_20200301000000_3"

\* C16: the columns of every returned table are exactly the requested
\* fields, whatever column names the START SECURITY lines of the reply hold.
C16_ColumnsAreFields ==
    ppc = "returned" => \A s \in DOMAIN dframes : dframes[s].columns = fields

\* The value of a cell of the tables; a cell that is not there is absent.
CellAt(dfs, s, d, c) ==
    IF s \in DOMAIN dfs /\ <<d, c>> \in DOMAIN dfs[s].cells THEN dfs[s].cells[<<d, c>>]
    ELSE NaN

\* The cells a reply can address.
Days == (Day1 - 1)..(Day1 + 4)
CellNames == Securities \X Days \X ColumnNames

\* The step reads, inside a block, a line of the block's entity with a date
\* of the range and a value that is a number other than zero.
ReadsValue ==
    /\ ReadsLine /\ in_sec
    /\ line'[1] = sec
    /\ Len(line') >= 3
    /\ Strptime(line'[2]) /= <<>>
    /\ Strptime(line'[2])[1] \in begin_date..end_date
    /\ FloatOf(line'[3])[1] = "num"
    /\ FloatOf(line'[3])[2] /= 0

\* The step reads a START SECURITY line with an entity and a column outside
\* a block.
ReadsStart == ReadsLine /\ ~in_sec /\ line'[1] = "START SECURITY" /\ Len(line') >= 3

\* C17: a data line of the block's entity with a date of the range and a
\* non-zero number sets the cell (date, column of the block) of the entity's
\* table to the number and changes no other cell of any table.  A table comes
\* into being only by a START SECURITY line for an entity that has none, with
\* the rows of the range, the requested columns and every cell absent; a
\* START SECURITY line for an entity that has a table leaves every table as
\* it is, so what earlier blocks wrote stays.  The tables returned are the
\* tables as the last line left them.
C17_OneCellPerDataLine ==
    /\ [][ReadsValue =>
            /\ ppc' = "parsing"
            /\ DOMAIN dframes' = DOMAIN dframes
            /\ \A n \in CellNames :
                  CellAt(dframes', n[1], n[2], n[3]) =
                      IF n = <<sec, Strptime(line'[2])[1], col>>
                      THEN <<FloatOf(line'[3])[2]>>
                      ELSE CellAt(dframes, n[1], n[2], n[3])]_vars
    /\ [][(ReadsLine /\ ppc' = "parsing" /\ DOMAIN dframes' /= DOMAIN dframes) =>
            /\ ReadsStart
            /\ line'[2] \notin DOMAIN dframes
            /\ dframes' = DictSet(dframes, line'[2], dframes'[line'[2]])
            /\ dframes'[line'[2]].index = DateRange(begin_date, end_date)
            /\ dframes'[line'[2]].columns = fields
            /\ \A n \in CellNames : CellAt(dframes', line'[2], n[2], n[3]) = NaN]_vars
    /\ [][(ReadsStart /\ line'[2] \in DOMAIN dframes) =>
            ppc' = "parsing" /\ dframes' = dframes]_vars
    /\ [][ppc' = "returned" => dframes' = dframes]_vars

\* Two blocks for IBM have each written a value, in two columns of the same
\* table, and the table is returned with both and with absent cells.
C17_Witness ==
    /\ ppc = "returned"
    /\ DOMAIN dframes = {"IBM"}
    /\ \E d \in Days : CellAt(dframes, "IBM", d, "PX_LAST") /= NaN
    /\ \E d \in Days : CellAt(dframes, "IBM", d, "PX_OPEN") /= NaN
    /\ \E d \in begin_date..end_date : CellAt(dframes, "IBM", d, "PX_LAST") = NaN

\* The step reads, inside a block, a line of the block's entity whose value
\* token is a number equal to zero.
ReadsZero ==
    /\ ReadsLine /\ in_sec
    /\ line'[1] = sec
    /\ Len(line') >= 3
    /\ FloatOf(line'[3]) = <<"num", 0>>

\* C18: a data line whose value is zero does what a data line whose value is
\* no number does: nothing is raised, every table is as before (the addressed
\* cell keeps what it held) and the parser stays in the block; and no cell of
\* any table ever holds zero.
C18_ZeroDropped ==
    /\ [][ReadsZero =>
            /\ ppc' = "parsing" /\ perr' = ""
            /\ dframes' = dframes
            /\ in_sec' /\ sec' = sec /\ col' = col]_vars
    /\ [](\A n \in CellNames : CellAt(dframes, n[1], n[2], n[3]) /= <<0>>)

\* A line with the value 0 was read for a cell that holds a value; the cell
\* still holds it.
C18_Witness ==
    /\ ppc = "parsing" /\ in_sec
    /\ Len(line) >= 3 /\ line[1] = sec /\ line[3] = "0"
    /\ CellAt(dframes, sec, Strptime(line[2])[1], col) = <<12345>>

\* The line is read and the parse goes on.
ReadsOn == ReadsLine /\ ppc' = "parsing"

\* C19: the parser is outside a block or inside one.  It goes from outside
\* to inside only by a START SECURITY line, which sets the entity and the
\* column of the block, and from inside to outside only by an END SECURITY
\* line.  Outside, a line whose first token is not START SECURITY (a data
\* line, an END SECURITY line, a blank line) raises nothing and leaves the
\* block state and every table unchanged.  Inside, a START SECURITY line opens
\* nothing: it goes the way of a data line, and as its first token is not the
\* entity of the block the assertion of the data line fails.  A reply that
\* ends inside a block returns the tables as its last line left them.
C19_BlockStateMachine ==
    /\ [][(ReadsOn /\ in_sec' /= in_sec) =>
            \/ ~in_sec /\ line'[1] = "START SECURITY"
            \/ in_sec /\ line'[1] = "END SECURITY"]_vars
    /\ [][(ReadsOn /\ ~in_sec /\ line'[1] = "START SECURITY") =>
            in_sec' /\ sec' = line'[2] /\ col' = line'[3]]_vars
    /\ [][(ReadsOn /\ in_sec /\ line'[1] = "END SECURITY") =>
            ~in_sec' /\ sec' = sec /\ col' = col /\ dframes' = dframes]_vars
    /\ [][(ReadsLine /\ ~in_sec /\ line'[1] /= "START SECURITY") =>
            /\ ppc' = "parsing" /\ perr' = ""
            /\ ~in_sec' /\ sec' = sec /\ col' = col
            /\ dframes' = dframes]_vars
    /\ [][(ReadsLine /\ in_sec /\ line'[1] = "START SECURITY") =>
            ppc' = "raised" /\ perr' = "AssertionError"]_vars
    /\ [][(ppc = "parsing" /\ in_sec /\ ppc' /= "parsing" /\ nlines' /= nlines + 1) =>
            ppc' = "returned" /\ perr' = "" /\ dframes' = dframes]_vars

\* After a block that wrote a value was closed, a data line was read outside
\* any block: the parser is still outside and goes on.
C19_Witness ==
    /\ ppc = "parsing" /\ ~in_sec
    /\ Len(line) >= 3
    /\ line[1] \in Securities
    /\ sec = line[1]
    /\ SomeValue

\* A step of request() that uses the transport: a write of a request file, or
\* an existence check with the read that may follow it.
Writes == pc = "send" /\ writes' /= writes
UsesTransport == Writes \/ Checked

\* C12: a call of request() opens one session, once, and never reopens it;
\* every write of a request file, every existence check and every read of a
\* reply happens with the session open; and when request() is left, by its
\* return or by an exception (a failing transport operation, an undecodable
\* reply, a failed assertion), a session that was open is closed.
C12_OneScopedSession ==
    [][ /\ session' /= session =>
              \/ session = "none" /\ session' = "open" /\ pc = "connect"
              \/ session = "open" /\ session' = "closed" /\ pc' \in {"done", "raised"}
        /\ UsesTransport => session = "open"
        /\ pc' \in {"send", "while", "sleep", "poll"} => session' = "open"
        /\ pc' \in {"done", "raised"} =>
              /\ session' /= "open"
              /\ session = "open" => session' = "closed"
        /\ pc \in {"done", "raised"} => UNCHANGED <<pc, session, writes, replyname>>
      ]_vars

\* Two requests were written, a reply that is not gzip made the read fail,
\* and the session is closed.
C12_Witness ==
    /\ pc = "raised"
    /\ exc = "BadGzipFile"
    /\ Len(writes) = 2
    /\ session = "closed"

\* The names of the request files of the batch, in the order of the mapping.
RequestFiles == [k \in DOMAIN requests |-> requests[k][1] \o ".req"]

\* request() is past its submission loop.
PollingBegun == pc \in {"while", "sleep", "poll", "done"}

\* C14: request() writes the request files one by one in the order of the
\* input mapping, each with its own text; when the loop of waits and checks
\* is reached every request has been written exactly once; and from then on
\* nothing is written and no request file changes.
C14_AllWrittenBeforePolling ==
    [][ /\ writes' /= writes =>
              /\ pc = "send"
              /\ replyname = ""
              /\ Len(writes) < Len(requests)
              /\ writes' = Append(writes, RequestFiles[Len(writes) + 1])
              /\ files' = [files EXCEPT ![RequestFiles[Len(writes) + 1]] =
                                          <<"text", requests[Len(writes) + 1][2]>>]
        /\ pc' \in {"while", "sleep", "poll", "done"} => writes' = RequestFiles
        /\ pc' \in {"sleep", "poll"} => writes' = writes
        /\ PollingBegun =>
              /\ writes' = writes
              /\ \A k \in DOMAIN writes : files'[writes[k]] = files[writes[k]]
      ]_vars

\* The second check of the first pass is due and the three requests of the
\* batch are on the server.
C14_Witness ==
    /\ pc = "poll"
    /\ i = 2
    /\ Len(requests) = 3
    /\ writes = RequestFiles
    /\ \A k \in DOMAIN requests : files[RequestFiles[k]] = <<"text", requests[k][2]>>

\* C15: a pass of checks starts only out of the wait, at the first identifier
\* of the pending list; during the pass the list stays as it was at the start
\* and its identifiers are checked one after the other, each once, under
\* <id>.dat.gz, and the pass ends only after the last of them; the wait is
\* entered only from the loop test.  A checked identifier is never one that
\* is completed; the mapping changes only by a check that stores the text of
\* the checked identifier, which was not stored before; and an entry of the
\* mapping never changes or disappears.
C15_OneCheckPerPendingPerCycle ==
    [][ /\ (pc' = "poll" /\ pc /= "poll") => pc = "sleep" /\ i' = 1 /\ pending' = pending
        /\ (pc' = "sleep" /\ pc /= "sleep") => pc = "while"
        /\ (pc = "sleep" /\ pc' /= "sleep") => pc' = "poll" \/ exc' = "IOError"
        /\ (pc = "poll" /\ pc' = "poll") => pending' = pending /\ i' \in {i, i + 1}
        /\ (pc = "poll" /\ pc' = "while") => i = Len(pending) + 1
        /\ Cardinality(Range(pending')) = Len(pending')
        /\ Checked =>
              /\ replyname' = pending[i] \o ".dat.gz"
              /\ pending[i] \notin DOMAIN responses
        /\ replyname' /= replyname => Checked \/ pc' /= "poll"
        /\ responses' /= responses =>
              /\ Checked
              /\ pending[i] \notin DOMAIN responses
              /\ responses' = DictSet(responses, pending[i], files[replyname'][2])
        /\ \A rid \in DOMAIN responses :
              rid \in DOMAIN responses' /\ responses'[rid] = responses[rid]
      ]_vars

\* In a later cycle: one identifier is completed, the two others are the
\* pending list, and the first of them has just been checked again.
C15_Witness ==
    /\ pc = "poll"
    /\ Cardinality(DOMAIN responses) = 1
    /\ Len(pending) = 2
    /\ i = 2
    /\ replyname = pending[1] \o ".dat.gz"

\* The failures of the transport and of the codec.
TransportFailures == {"IOError", "BadGzipFile"}

\* C20: when a transport operation fails (the connection, a write, an
\* existence check, a read, the decompression of a reply), request() ends at
\* that step with that failure and returns nothing, whatever it had collected;
\* afterwards it writes nothing, checks nothing and never returns.  Without a
\* failure it does not end by an exception.
C20_FailureEndsCall ==
    [][ /\ exc' /= exc =>
              /\ exc = ""
              /\ exc' \in TransportFailures
              /\ exc' = "BadGzipFile" => pc = "poll" /\ Exists(ReplyName(pending[i]))
              /\ pc' = "raised"
        /\ pc' = "raised" =>
              /\ exc' \in TransportFailures
              /\ result' = NoReturn
              /\ writes' = writes
              /\ responses' = responses
        /\ pc = "raised" =>
              UNCHANGED <<pc, exc, result, writes, responses, replyname, session>>
      ]_vars

\* The replies of two of the three requests had been collected when a
\* transport operation failed: the call has ended and nothing was returned.
C20_Witness ==
    /\ pc = "raised"
    /\ exc = "IOError"
    /\ Len(requests) = 3
    /\ Cardinality(DOMAIN responses) = 2
    /\ result = NoReturn

(***************************************************************************)
(* Properties of Sftp.build_request: the layout of the text                *)
(***************************************************************************)
\* Every line of a list, each ended by a newline.
RECURSIVE Unlines(_)
Unlines(lines) == IF lines = <<>> THEN "" ELSE lines[1] \o "\n" \o Unlines(Tail(lines))

\* The lines between two markers: the entries, or one empty line for none.
Block(entries) == IF entries = <<>> THEN <<"">> ELSE entries

\* The caller's header entries, KEY=VALUE; the first one follows the
\* indentation that closes the mandatory entries.
CallerEntries(headers) ==
    IF headers = <<>> THEN <<"        ">>
    ELSE [k \in DOMAIN headers |->
            (IF k = 1 THEN "        " ELSE "") \o headers[k][1] \o "=" \o headers[k][2]]

\* The request text, line by line, in the order the blocks are laid out.
ExpectedLines(rid, headers, flds, data) ==
    <<"START-OF-FILE", "">>
      \o <<"            FIRMNAME=" \o username,
           "            REPLYFILENAME=" \o rid \o ".dat",
           "            COMPRESS=yes",
           "            PROGRAMFLAG=oneshot">>
      \o CallerEntries(headers)
      \o <<"START-OF-FIELDS">> \o Block(flds) \o <<"END-OF-FIELDS">>
      \o <<"START-OF-DATA">> \o Block(data) \o <<"END-OF-DATA">>
      \o <<"", "END-OF-FILE">>

\* C13: whatever headers, fields and data build_request is called with, the
\* text it returns is, line by line: the opening marker; the four mandatory
\* header entries for the returned rid, then the caller's entries in their
\* order, one KEY=VALUE a line; the fields between their two markers in the
\* given order; the data lines between their two markers in the given order;
\* the closing marker.  An empty list leaves nothing but an empty line
\* between its markers.
C13_TextLayout ==
    request_id > 0 =>
        request_text = Unlines(ExpectedLines(built[Len(built)], args[1], args[2], args[3]))

\* The second request was built with two headers, two fields and no data.
C13_Witness ==
    /\ request_id = 2
    /\ Len(args[1]) = 2 /\ Len(args[2]) = 2 /\ args[3] = <<>>
    /\ request_text /= ""

(***************************************************************************)
(* Properties of a session: build_request, then request                    *)
(***************************************************************************)
\* The text build_request returns for a rid when called as BuildForBatch
\* calls it, the reply-file name in the header written out from the rid.
TextNaming(rid) ==
    "START-OF-FILE\n"
      \o "\n            FIRMNAME=" \o username
      \o "\n            REPLYFILENAME=" \o rid \o ".dat"
      \o "\n            COMPRESS=yes"
      \o "\n            PROGRAMFLAG=oneshot"
      \o "\n        PROGRAMNAME=gethistory"
      \o "\nSTART-OF-FIELDS\nPX_LAST\nEND-OF-FIELDS\n"
      \o "START-OF-DATA\nIBM Equity\nEND-OF-DATA\n"
      \o "\nEND-OF-FILE\n"

\* The identifiers build_request returned that the caller did not submit.
NotSubmitted == Range(built) \ Submitted

\* C11: for every identifier returned by build_request and submitted under
\* it, the header of its text names the reply file <id>.dat, the file request()
\* writes is <id>.req with that text, and the file request() checks and reads
\* is <id>.dat.gz; every path request() writes, checks or reads is the path of
\* a submitted identifier, and the files of identifiers that were built and
\* not submitted are never written and never read.
C11_NamesCarryIdentifier ==
    /\ \A k \in DOMAIN requests :
          /\ requests[k][1] \in Range(built)
          /\ requests[k][2] = TextNaming(requests[k][1])
    /\ \A k \in DOMAIN writes :
          /\ writes[k] = requests[k][1] \o ".req"
          /\ files[writes[k]] = <<"text", requests[k][2]>>
    /\ replyname /= "" => \E rid \in Submitted : replyname = rid \o ".dat.gz"
    /\ \A rid \in DOMAIN responses :
          /\ rid \in Submitted
          /\ files[rid \o ".dat.gz"] = <<"gz", responses[rid]>>
    /\ \A rid \in NotSubmitted :
          /\ files[rid \o ".req"] = NoFile
          /\ rid \notin DOMAIN responses

\* request() returned the replies of two built requests while the reply of a
\* third, built and not submitted, lay on the server.
C11_Witness ==
    /\ pc = "done"
    /\ Cardinality(DOMAIN result[1]) = 2
    /\ \E rid \in NotSubmitted : Exists(ReplyName(rid))

====
